---- MODULE Spec2Model ----
(***************************************************************************)
(* rccopy: recursive directory copy with checksum verification and an     *)
(* optional MediaHashList manifest (src/src/main.rs).                      *)
(*                                                                         *)
(* Paths are sequences of names.  A file's data is a sequence of bytes.    *)
(* The run is single-threaded: main's per-file loop, the empty-directory   *)
(* loop, the manifest emission and the end-of-run report follow each other *)
(* under the program counter pc.  I/O failures are inputs of each step.    *)
(***************************************************************************)
EXTENDS Integers, Sequences, FiniteSets, TLC

VARIABLES
    opt,              \* Opt: checksum (Option<String>), mhl, dry_run
    srcFiles,         \* source tree: file path -> data
    srcDirs,          \* source tree: directory paths
    dstFiles,         \* destination tree: file path -> [data, perms, times]
    dstDirs,          \* destination tree: directory paths
    dst0,             \* the destination's files before the run
    files,            \* main: files (get_files_in_directory(&opt.input))
    empty_dirs,       \* main: empty_dirs (get_empty_dirs(&opt.input))
    idx,              \* position of the per-file loop in files (1-based)
    didx,             \* position of the empty-directory loop in empty_dirs
    failed_files,     \* main: failed_files
    had_errors,       \* main: had_errors
    copied_anything,  \* main: copied_anything
    mhl_data,         \* main: mhl_data
    mhl_file,         \* the manifest file in the destination root
    pc,               \* "loop", "dirs", "mhl", "report", "done", "exit1", "panic"
    exit_code,        \* process exit status, -1 while running
    report,           \* the end-of-run line printed
    printed_failed,   \* the failed paths printed under "Failed files:"
    fstate,           \* per file: the branch of the loop body it ended in
    digests,          \* per file: the two digests the loop body compared
    io_error,         \* per file: the I/O failure its step met, "none" if none
    bytes_written     \* bytes handed to write_all on destination files

vars == <<opt, srcFiles, srcDirs, dstFiles, dstDirs, dst0, files, empty_dirs,
          idx, didx, failed_files, had_errors, copied_anything, mhl_data,
          mhl_file, pc, exit_code, report, printed_failed, fstate, digests,
          io_error, bytes_written>>

----------------------------------------------------------------------------
(* Bounds and inputs *)

\* Longest file, in bytes.
MaxLen == 1

Bytes == {0, 1}

\* CHUNK_SIZE, scaled from 8 MiB to the model's file sizes.
CHUNK_SIZE == 1

RECURSIVE SeqsUpTo(_)
SeqsUpTo(n) ==
    IF n = 0 THEN {<<>>}
    ELSE LET shorter == SeqsUpTo(n - 1)
         IN  shorter \cup {Append(s, b) : s \in {t \in shorter : Len(t) = n - 1}, b \in Bytes}

Contents == SeqsUpTo(MaxLen)

\* --checksum values: absent, the three supported names, an unsupported one.
NoChecksum == "none"
Supported == {"md5", "sha1", "xxhash64"}
ChecksumOptions == {NoChecksum} \cup Supported \cup {"crc32"}

Opt == [checksum : ChecksumOptions, mhl : BOOLEAN, dry_run : BOOLEAN]

\* opt.input, its parent, and opt.destination.
input_parent == <<"p">>
input == <<"p", "in">>
destination == <<"q">>

Min(a, b) == IF a < b THEN a ELSE b

Parent(path) == SubSeq(path, 1, Len(path) - 1)
FileName(path) == path[Len(path)]
Prefixes(path) == {SubSeq(path, 1, k) : k \in 1..Len(path)}
StripPrefix(path, prefix) == SubSeq(path, Len(prefix) + 1, Len(path))

----------------------------------------------------------------------------
(* Directory Walker *)

exclude_files ==
    {".DS_Store", ".AppleDouble", ".LSOverride", ".DocumentRevisions-V100",
     ".fseventsd", ".Spotlight-V100", ".TemporaryItems", ".Trashes",
     ".VolumeIcon.icns", ".com.apple.timemachine.donotpresent"}

\* The names of the model's trees that begin with "._".
starts_with_dot_underscore(file_name) == file_name \in {"._a.txt"}

\* The order in which fs::read_dir yields the names of one directory.
ReadDirOrder == <<"a.txt", ".DS_Store", "._a.txt", "sub", "b.bin", "empty", ".Trashes">>

\* fs::read_dir(dir): the paths of dir's entries.
read_dir(dir) ==
    LET names == SelectSeq(ReadDirOrder,
                     LAMBDA n : Append(dir, n) \in srcDirs \cup DOMAIN srcFiles)
    IN  [k \in 1..Len(names) |-> Append(dir, names[k])]

RECURSIVE get_files_in_directory(_)
RECURSIVE FilesOfEntries(_)

\* The loop body of get_files_in_directory over the entries left.
FilesOfEntries(entries) ==
    IF entries = <<>> THEN <<>>
    ELSE LET path == Head(entries)
             here == IF path \in srcDirs
                         THEN get_files_in_directory(path)
                     ELSE IF /\ FileName(path) \notin exclude_files
                             /\ ~starts_with_dot_underscore(FileName(path))
                         THEN <<path>>
                     ELSE <<>>
         IN  here \o FilesOfEntries(Tail(entries))

get_files_in_directory(dir) == FilesOfEntries(read_dir(dir))

\* EmptyDirsOfEntries without the descent into sub-directories.
RECURSIVE EmptyDirsOfEntriesShallow(_)
EmptyDirsOfEntriesShallow(entries) ==
    IF entries = <<>> THEN <<>>
    ELSE LET path == Head(entries)
             here == IF path \in srcDirs /\ read_dir(path) = <<>> THEN <<path>>
                     ELSE <<>>
         IN  here \o EmptyDirsOfEntriesShallow(Tail(entries))

RECURSIVE get_empty_dirs(_)
RECURSIVE EmptyDirsOfEntries(_)

\* The loop body of get_empty_dirs over the entries left.
EmptyDirsOfEntries(entries) ==
    IF entries = <<>> THEN <<>>
    ELSE LET path == Head(entries)
             here == IF path \in srcDirs
                         THEN (IF read_dir(path) = <<>> THEN <<path>> ELSE <<>>)
                              \o get_empty_dirs(path)
                     ELSE <<>>
         IN  here \o EmptyDirsOfEntries(Tail(entries))

get_empty_dirs(dir) == EmptyDirsOfEntries(read_dir(dir))

\* main: destination_file / destination_dir of a source path.
destination_of(path) == destination \o StripPrefix(path, input_parent)

----------------------------------------------------------------------------
(* Hash Engine: HashMethod, its update and its hexadecimal digest *)

\* Md5::new(), Sha1::new(), Xxh64::new(0).
HashNew(method) == 0

\* HashUpdate absorbing only the number of bytes, not their values.
HashUpdateLength(h, chunk) == h + Len(chunk)

\* One update call: the chunk's bytes are absorbed in order.
RECURSIVE HashUpdate(_, _)
HashUpdate(h, chunk) ==
    IF chunk = <<>> THEN h
    ELSE HashUpdate(h * (Cardinality(Bytes) + 1) + Head(chunk) + 1, Tail(chunk))

\* format!("{:032x}"), format!("{:040x}"), format!("{:016x}").
HexWidth(method) ==
    CASE method = "md5" -> 32
      [] method = "sha1" -> 40
      [] method = "xxhash64" -> 16

\* A returned String: a zero-padded hexadecimal digest, or the text "None".
HashString(method, h) == [text |-> "hex", width |-> HexWidth(method), value |-> h]
NoneString == [text |-> "None", width |-> 0, value |-> 0]
NoString == [text |-> "", width |-> 0, value |-> 0]

\* The bytes one read() call returns at offset pos.
ReadChunk(data, pos) == SubSeq(data, pos + 1, Min(pos + CHUNK_SIZE, Len(data)))

\* The read() calls a whole pass over data makes, the last returning 0 bytes.
NumChunks(data) == (Len(data) + CHUNK_SIZE - 1) \div CHUNK_SIZE
NumReads(data) == NumChunks(data) + 1

----------------------------------------------------------------------------
(* I/O failures a step can meet.  "corrupt" is the medium storing bytes    *)
(* other than the ones written, without any error being returned.          *)

ChecksumFaults == {"none", "open", "read"}
CopyFaults == {"none", "mkdir", "open_src", "create_dst", "read", "write", "corrupt",
               "metadata", "set_permissions", "creation_time", "set_file_times"}

Flip(chunk) == [k \in 1..Len(chunk) |-> 1 - chunk[k]]

Put(f, k, v) == [x \in DOMAIN f \cup {k} |-> IF x = k THEN v ELSE f[x]]

----------------------------------------------------------------------------
(* Verifier: process_checksum *)

\* The read loop of process_checksum from offset pos, n - 1 reads made so far.
RECURSIVE ChecksumLoop(_, _, _, _, _, _)
ChecksumLoop(data, pos, h, n, fault, at) ==
    IF fault = "read" /\ at = n
        THEN [ok |-> FALSE, h |-> h]                 \* read(..).unwrap()
    ELSE LET chunk == ReadChunk(data, pos)
         IN  IF Len(chunk) = 0 THEN [ok |-> TRUE, h |-> h]
             ELSE ChecksumLoop(data, pos + Len(chunk), HashUpdate(h, chunk),
                               n + 1, fault, at)

\* process_checksum on a file holding data.  result: "Ok" (value is the
\* digest), "Panic" (an unwrap failed) or "Exit" (std::process::exit(1));
\* hit says whether the step met the I/O failure.
process_checksum(data, checksum_method, fault, at) ==
    IF checksum_method = NoChecksum
        THEN [result |-> "Panic", value |-> NoString, hit |-> FALSE]
    ELSE IF fault = "open"
        THEN [result |-> "Panic", value |-> NoString, hit |-> TRUE]
    ELSE IF checksum_method \notin Supported
        THEN [result |-> "Exit", value |-> NoString, hit |-> FALSE]
    ELSE LET r == ChecksumLoop(data, 0, HashNew(checksum_method), 1, fault, at)
         IN  IF r.ok
                 THEN [result |-> "Ok", value |-> HashString(checksum_method, r.h),
                       hit |-> FALSE]
             ELSE [result |-> "Panic", value |-> NoString, hit |-> TRUE]

----------------------------------------------------------------------------
(* File Copier: copy_file *)

\* The copy loop of copy_file from offset pos, n - 1 reads made so far; out is
\* what the destination file holds, hashing whether a hasher is updated.
RECURSIVE CopyLoop(_, _, _, _, _, _, _, _)
CopyLoop(data, pos, out, h, hashing, n, fault, at) ==
    IF fault = "read" /\ at = n
        THEN [ok |-> FALSE, out |-> out, h |-> h, written |-> Len(out)]
    ELSE LET chunk == ReadChunk(data, pos)
         IN  IF Len(chunk) = 0
                 THEN [ok |-> TRUE, out |-> out, h |-> h, written |-> Len(out)]
             ELSE IF fault = "write" /\ at = n
                 THEN [ok |-> FALSE, out |-> out, h |-> h, written |-> Len(out)]
             ELSE CopyLoop(data, pos + Len(chunk),
                           out \o (IF fault = "corrupt" /\ at = n
                                       THEN Flip(chunk) ELSE chunk),
                           IF hashing THEN HashUpdate(h, chunk) ELSE h,
                           hashing, n + 1, fault, at)

\* The metadata block that ends both branches of copy_file.
CopyMetadata(file, fault) ==
    IF fault = "metadata" THEN [result |-> "Err", file |-> file]
    ELSE IF fault = "set_permissions" THEN [result |-> "Err", file |-> file]
    ELSE IF fault = "creation_time"
        THEN [result |-> "Panic", file |-> [file EXCEPT !.perms = "source"]]
    ELSE IF fault = "set_file_times"
        THEN [result |-> "Err", file |-> [file EXCEPT !.perms = "source"]]
    ELSE [result |-> "Ok", file |-> [file EXCEPT !.perms = "source", !.times = "source"]]

\* copy_file.  result: "Ok" (value is the digest, or "None"), "Err", "Panic"
\* or "Exit"; files and dirs are the destination tree it leaves behind.
copy_file(input_path, destination_path, checksum_method, fault, at) ==
    LET parent == Parent(destination_path)
        made   == parent \notin dstDirs
        dirs1  == IF made THEN dstDirs \cup Prefixes(parent) ELSE dstDirs
        files1 == Put(dstFiles, destination_path,
                      [data |-> <<>>, perms |-> "new", times |-> "new"])
        stop(res, f, d, w, hit) ==
            [result |-> res, value |-> NoString, hit |-> hit,
             files |-> f, dirs |-> d, written |-> w]
    IN  IF made /\ fault = "mkdir"
            THEN stop("Panic", dstFiles, dstDirs, 0, TRUE)
        ELSE IF fault = "open_src"
            THEN stop("Panic", dstFiles, dirs1, 0, TRUE)
        ELSE IF fault = "create_dst"
            THEN stop("Panic", dstFiles, dirs1, 0, TRUE)
        ELSE IF checksum_method # NoChecksum /\ checksum_method \notin Supported
            THEN stop("Exit", files1, dirs1, 0, FALSE)
        ELSE
            LET hashing == checksum_method # NoChecksum
                loop == CopyLoop(srcFiles[input_path], 0, <<>>,
                                 IF hashing THEN HashNew(checksum_method) ELSE 0,
                                 hashing, 1, fault, at)
                files2 == Put(dstFiles, destination_path,
                              [data |-> loop.out, perms |-> "new", times |-> "new"])
                meta == CopyMetadata(files2[destination_path], fault)
                files3 == Put(dstFiles, destination_path, meta.file)
            IN  IF ~loop.ok
                    THEN stop("Panic", files2, dirs1, loop.written, TRUE)
                ELSE IF meta.result # "Ok"
                    THEN stop(meta.result, files3, dirs1, loop.written, TRUE)
                ELSE [result |-> "Ok",
                      value |-> IF hashing THEN HashString(checksum_method, loop.h)
                                ELSE NoneString,
                      hit |-> fault = "corrupt",
                      files |-> files3, dirs |-> dirs1, written |-> loop.written]

\* The points of a pass over data at which a failure of this kind can strike.
FaultPoints(fault, data) ==
    CASE fault = "read" -> 1..NumReads(data)
      [] fault \in {"write", "corrupt"} -> 1..NumChunks(data)
      [] OTHER -> {1}

----------------------------------------------------------------------------
(* Initial states: the options, a source tree and a destination tree *)

a_txt == Append(input, "a.txt")
sub == Append(input, "sub")
b_bin == Append(sub, "b.bin")
trashes == Append(input, ".Trashes")

\* The source trees: the data each regular file may hold (b.bin is a 0-byte
\* file), the OS bookkeeping files, and the directories; the last tree has a
\* directory that bears a name of exclude_files and holds a file.
TreesOver(contents) ==
    { [data |-> [f \in {a_txt} |-> contents], junk |-> {}, dirs |-> {input}],
      [data |-> [f \in {a_txt, b_bin} |-> IF f = a_txt THEN contents ELSE {<<>>}],
       junk |-> {}, dirs |-> {input, sub}],
      [data |-> [f \in {a_txt} |-> contents],
       junk |-> {Append(input, ".DS_Store"), Append(input, "._a.txt")},
       dirs |-> {input, Append(input, "empty")}],
      [data |-> [f \in {} |-> {}], junk |-> {},
       dirs |-> {input, sub, Append(sub, "empty")}],
      [data |-> [f \in {Append(trashes, "b.bin")} |-> {<<>>}], junk |-> {},
       dirs |-> {input, trashes}] }

Trees == TreesOver(Contents)

Pending == "Pending"

\* The phase that follows the per-file loop, and the one after the
\* empty-directory loop.
AfterFiles(dirs) == IF dirs = <<>> THEN "mhl" ELSE "dirs"

\* The state main's loop starts from, for options, source file data and
\* destination file data drawn from the given sets.
InitFrom(options, contents, old_contents) ==
    /\ opt \in options
    /\ \E tree \in TreesOver(contents) :
          /\ srcDirs = tree.dirs
          /\ \E d \in [DOMAIN tree.data -> contents] :
                /\ \A f \in DOMAIN tree.data : d[f] \in tree.data[f]
                /\ srcFiles = [f \in DOMAIN tree.data \cup tree.junk |->
                                  IF f \in DOMAIN tree.data THEN d[f] ELSE <<>>]
    /\ files = get_files_in_directory(input)
    /\ empty_dirs = get_empty_dirs(input)
    /\ \E present \in SUBSET {destination_of(files[k]) : k \in 1..Len(files)} :
          /\ dstFiles \in [present -> [data : old_contents, perms : {"old"}, times : {"old"}]]
          /\ dstDirs = {destination} \cup UNION {Prefixes(Parent(f)) : f \in present}
    /\ dst0 = dstFiles
    /\ idx = 1
    /\ didx = 1
    /\ failed_files = <<>>
    /\ had_errors = FALSE
    /\ copied_anything = FALSE
    /\ mhl_data = <<>>
    /\ mhl_file = [exists |-> FALSE, hashes |-> <<>>]
    /\ pc = IF files = <<>> THEN AfterFiles(empty_dirs) ELSE "loop"
    /\ exit_code = -1
    /\ report = ""
    /\ printed_failed = <<>>
    /\ fstate = [k \in 1..Len(files) |-> Pending]
    /\ digests = [k \in 1..Len(files) |-> <<NoString, NoString>>]
    /\ io_error = [k \in 1..Len(files) |-> "none"]
    /\ bytes_written = 0

Init == InitFrom(Opt, Contents, Contents)

\* Runs with a supported algorithm over source files of up to MaxLen + 1
\* bytes, which the copy loop moves in more than one chunk; the files the
\* destination already holds have up to MaxLen bytes.
LongContents == SeqsUpTo(MaxLen + 1)
InitChunks == InitFrom([checksum : Supported, mhl : BOOLEAN, dry_run : BOOLEAN],
                       LongContents, Contents)

----------------------------------------------------------------------------
(* main: the per-file loop *)

\* The condition of the skip branch: the destination file exists and has the
\* source's length.
SameSize(file, destination_file) ==
    /\ destination_file \in DOMAIN dstFiles
    /\ Len(dstFiles[destination_file].data) = Len(srcFiles[file])

\* ChecksumsMatch with the comparison lost: every pair of digests passes.
ChecksumsMatchAlways(src_checksum, dest_checksum) == TRUE

\* ChecksumsMatch with the comparison inverted.
ChecksumsMismatch(src_checksum, dest_checksum) == src_checksum # dest_checksum

\* The comparison of the two digest strings.
ChecksumsMatch(src_checksum, dest_checksum) == src_checksum = dest_checksum

\* The FileMetadata pushed on mhl_data.
FileMetadata(file, destination_file, checksum) ==
    [file |-> StripPrefix(destination_file, destination),
     size |-> Len(srcFiles[file]),
     checksum |-> checksum,
     checksum_method |-> IF opt.checksum = "xxhash64" THEN "xxhash64be"
                         ELSE opt.checksum]

\* What one pass of the loop body leaves: end is "continue", "Panic" or "Exit".
EndIteration(o) ==
    /\ fstate' = IF o.end = "continue" THEN [fstate EXCEPT ![idx] = o.state] ELSE fstate
    /\ mhl_data' = IF o.end = "continue" /\ o.state \in {"Skipped-Verified", "Copied-Verified"}
                       THEN Append(mhl_data, FileMetadata(files[idx],
                                       destination_of(files[idx]), o.first))
                   ELSE mhl_data
    /\ failed_files' = IF o.end = "continue" /\ o.state \in {"Skipped-Failed", "Copied-Failed"}
                           THEN Append(failed_files, files[idx])
                       ELSE failed_files
    /\ had_errors' = (had_errors \/ (o.end = "continue" /\
                                     o.state \in {"Skipped-Failed", "Copied-Failed"}))
    /\ copied_anything' = (copied_anything \/ o.copied)
    /\ dstFiles' = o.files
    /\ dstDirs' = o.dirs
    /\ bytes_written' = bytes_written + o.written
    /\ digests' = [digests EXCEPT ![idx] = <<o.first, o.second>>]
    /\ io_error' = [io_error EXCEPT ![idx] = o.fault]
    /\ idx' = IF o.end = "continue" THEN idx + 1 ELSE idx
    /\ pc' = CASE o.end = "Panic" -> "panic"
               [] o.end = "Exit" -> "exit1"
               [] OTHER -> IF idx < Len(files) THEN "loop" ELSE AfterFiles(empty_dirs)
    /\ exit_code' = CASE o.end = "Panic" -> 101
                      [] o.end = "Exit" -> 1
                      [] OTHER -> exit_code
    /\ UNCHANGED <<opt, srcFiles, srcDirs, dst0, files, empty_dirs, didx, mhl_file,
                   report, printed_failed>>

\* Dry run: both branches only print.
PreviewFile ==
    /\ pc = "loop"
    /\ opt.dry_run
    /\ idx' = idx + 1
    /\ pc' = IF idx < Len(files) THEN "loop" ELSE AfterFiles(empty_dirs)
    /\ UNCHANGED <<opt, srcFiles, srcDirs, dstFiles, dstDirs, dst0, files, empty_dirs,
                   didx, failed_files, had_errors, copied_anything, mhl_data, mhl_file,
                   exit_code, report, printed_failed, fstate, digests, io_error,
                   bytes_written>>

\* The skip branch: the destination file exists with the source's size.
VerifyExisting ==
    /\ pc = "loop"
    /\ ~opt.dry_run
    /\ SameSize(files[idx], destination_of(files[idx]))
    /\ \E f1 \in ChecksumFaults, f2 \in ChecksumFaults :
       \E a1 \in FaultPoints(f1, srcFiles[files[idx]]),
          a2 \in FaultPoints(f2, dstFiles[destination_of(files[idx])].data) :
          LET file == files[idx]
              destination_file == destination_of(file)
              src_checksum == process_checksum(srcFiles[file], opt.checksum, f1, a1)
              dest_checksum == process_checksum(dstFiles[destination_file].data,
                                                opt.checksum, f2, a2)
              stopped == src_checksum.result \in {"Panic", "Exit"}
              base == [end |-> "continue", state |-> Pending, copied |-> FALSE,
                       files |-> dstFiles, dirs |-> dstDirs, written |-> 0,
                       first |-> src_checksum.value,
                       second |-> IF stopped THEN NoString ELSE dest_checksum.value,
                       fault |-> IF f1 # "none" THEN f1 ELSE f2]
          IN  /\ src_checksum.hit \/ f1 = "none"
              /\ IF stopped THEN f2 = "none" ELSE (dest_checksum.hit \/ f2 = "none")
              /\ EndIteration(
                   IF stopped
                       THEN [base EXCEPT !.end = src_checksum.result]
                   ELSE IF dest_checksum.result \in {"Panic", "Exit"}
                       THEN [base EXCEPT !.end = dest_checksum.result]
                   ELSE IF src_checksum.result = "Err"
                       THEN [base EXCEPT !.state = "Skipped-Failed"]
                   ELSE IF dest_checksum.result = "Err"
                       THEN [base EXCEPT !.state = "Skipped-Failed"]
                   ELSE IF ChecksumsMatch(src_checksum.value, dest_checksum.value)
                       THEN [base EXCEPT !.state = "Skipped-Verified"]
                   ELSE [base EXCEPT !.state = "Skipped-Failed"])

\* The copy branch: copy_file, then the re-read of the destination.
CopyAndVerify ==
    /\ pc = "loop"
    /\ ~opt.dry_run
    /\ ~SameSize(files[idx], destination_of(files[idx]))
    /\ \E f1 \in CopyFaults, f2 \in ChecksumFaults :
       \E a1 \in FaultPoints(f1, srcFiles[files[idx]]), a2 \in 1..(MaxLen + 2) :
          LET file == files[idx]
              destination_file == destination_of(file)
              src_checksum == copy_file(file, destination_file, opt.checksum, f1, a1)
              verifying == src_checksum.result = "Ok" /\ src_checksum.value # NoneString
              dest_checksum ==
                  IF verifying
                      THEN process_checksum(src_checksum.files[destination_file].data,
                                            opt.checksum, f2, a2)
                  ELSE [result |-> "Ok", value |-> NoString, hit |-> FALSE]
              base == [end |-> "continue", state |-> Pending,
                       copied |-> src_checksum.result = "Ok",
                       files |-> src_checksum.files, dirs |-> src_checksum.dirs,
                       written |-> src_checksum.written,
                       first |-> src_checksum.value, second |-> dest_checksum.value,
                       fault |-> IF f1 # "none" THEN f1 ELSE f2]
          IN  /\ src_checksum.hit \/ f1 = "none"
              /\ IF verifying
                     THEN /\ dest_checksum.hit \/ f2 = "none"
                          /\ a2 \in FaultPoints(f2, src_checksum.files[destination_file].data)
                 ELSE f2 = "none" /\ a2 = 1
              /\ EndIteration(
                   IF src_checksum.result \in {"Panic", "Exit"}
                       THEN [base EXCEPT !.end = src_checksum.result]
                   ELSE IF src_checksum.result = "Err"
                       THEN [base EXCEPT !.state = "Copied-Failed"]
                   ELSE IF src_checksum.value = NoneString
                       THEN [base EXCEPT !.state = "Copied-NoChecksum"]
                   ELSE IF dest_checksum.result \in {"Panic", "Exit"}
                       THEN [base EXCEPT !.end = dest_checksum.result]
                   ELSE IF dest_checksum.result = "Err"
                       THEN [base EXCEPT !.state = "Copied-Failed"]
                   ELSE IF ChecksumsMatch(src_checksum.value, dest_checksum.value)
                       THEN [base EXCEPT !.state = "Copied-Verified"]
                   ELSE [base EXCEPT !.state = "Copied-Failed"])

----------------------------------------------------------------------------
(* main: the empty directories, the manifest and the end-of-run report *)

\* CreatesDir without the dry_run test.
CreatesDirInPreview(destination_dir) ==
    /\ destination_dir \notin dstDirs
    /\ destination_dir \notin DOMAIN dstFiles

\* Whether the loop over empty_dirs creates destination_dir.
CreatesDir(destination_dir) ==
    /\ destination_dir \notin dstDirs
    /\ destination_dir \notin DOMAIN dstFiles
    /\ ~opt.dry_run

\* One pass of the loop over empty_dirs.
CreateEmptyDir ==
    /\ pc = "dirs"
    /\ \E fault \in {"none", "mkdir"} :
          LET destination_dir == destination_of(empty_dirs[didx])
              creates == CreatesDir(destination_dir)
          IN  /\ creates \/ fault = "none"
              /\ IF fault = "mkdir"
                     THEN /\ pc' = "panic"            \* create_dir_all(..).unwrap()
                          /\ exit_code' = 101
                          /\ UNCHANGED <<dstDirs, didx>>
                 ELSE /\ dstDirs' = IF creates THEN dstDirs \cup Prefixes(destination_dir)
                                    ELSE dstDirs
                      /\ didx' = didx + 1
                      /\ pc' = IF didx < Len(empty_dirs) THEN "dirs" ELSE "mhl"
                      /\ UNCHANGED exit_code
    /\ UNCHANGED <<opt, srcFiles, srcDirs, dstFiles, dst0, files, empty_dirs, idx,
                   failed_files, had_errors, copied_anything, mhl_data, mhl_file,
                   report, printed_failed, fstate, digests, io_error, bytes_written>>

\* The condition under which main calls write_mhl_v2.
WritesMhl == opt.mhl /\ copied_anything /\ ~opt.dry_run

\* HashElements emitting the items last to first.
RECURSIVE HashElementsReversed(_, _)
HashElementsReversed(metadata, n) ==
    IF n = 0 THEN <<>>
    ELSE <<[file |-> metadata[n].file, size |-> metadata[n].size,
            tag |-> metadata[n].checksum_method,
            checksum |-> metadata[n].checksum]>>
         \o HashElementsReversed(metadata, n - 1)

\* The <hash> elements write_mhl_v2 emits for the first n items of metadata.
RECURSIVE HashElements(_, _)
HashElements(metadata, n) ==
    IF n = 0 THEN <<>>
    ELSE Append(HashElements(metadata, n - 1),
                [file |-> metadata[n].file, size |-> metadata[n].size,
                 tag |-> metadata[n].checksum_method,
                 checksum |-> metadata[n].checksum])

\* write_mhl_v2 is called: File::create may return Err (exit 1), a writer
\* call may panic after n items, or the whole document is written.
WriteMhl ==
    /\ pc = "mhl"
    /\ WritesMhl
    /\ \E fault \in {"none", "create", "write"} :
       \E n \in 0..Len(mhl_data) :
          /\ fault = "write" \/ n = Len(mhl_data)
          /\ mhl_file' = IF fault = "create" THEN mhl_file
                         ELSE [exists |-> TRUE, hashes |-> HashElements(mhl_data, n)]
          /\ pc' = CASE fault = "create" -> "exit1"
                     [] fault = "write" -> "panic"
                     [] OTHER -> "report"
          /\ exit_code' = CASE fault = "create" -> 1
                            [] fault = "write" -> 101
                            [] OTHER -> exit_code
    /\ UNCHANGED <<opt, srcFiles, srcDirs, dstFiles, dstDirs, dst0, files, empty_dirs,
                   idx, didx, failed_files, had_errors, copied_anything, mhl_data,
                   report, printed_failed, fstate, digests, io_error, bytes_written>>

\* write_mhl_v2 is not called.
SkipMhl ==
    /\ pc = "mhl"
    /\ ~WritesMhl
    /\ pc' = "report"
    /\ UNCHANGED <<opt, srcFiles, srcDirs, dstFiles, dstDirs, dst0, files, empty_dirs,
                   idx, didx, failed_files, had_errors, copied_anything, mhl_data,
                   mhl_file, exit_code, report, printed_failed, fstate, digests,
                   io_error, bytes_written>>

\* ReportLine testing copied_anything before had_errors.
ReportLineSuccessFirst ==
    IF opt.dry_run THEN "Finished dry run."
    ELSE IF copied_anything THEN "Finished successfully."
    ELSE IF had_errors THEN "Finished with errors."
    ELSE "Nothing to copy."

\* The line the end-of-run report prints.
ReportLine ==
    IF opt.dry_run THEN "Finished dry run."
    ELSE IF had_errors THEN "Finished with errors."
    ELSE IF copied_anything THEN "Finished successfully."
    ELSE "Nothing to copy."

\* The status main ends with after the report.
ExitStatus == 0

\* The end-of-run report; main returns.
Report ==
    /\ pc = "report"
    /\ report' = ReportLine
    /\ printed_failed' = IF ~opt.dry_run /\ had_errors THEN failed_files ELSE <<>>
    /\ pc' = "done"
    /\ exit_code' = ExitStatus
    /\ UNCHANGED <<opt, srcFiles, srcDirs, dstFiles, dstDirs, dst0, files, empty_dirs,
                   idx, didx, failed_files, had_errors, copied_anything, mhl_data,
                   mhl_file, fstate, digests, io_error, bytes_written>>

Next ==
    \/ PreviewFile
    \/ VerifyExisting
    \/ CopyAndVerify
    \/ CreateEmptyDir
    \/ WriteMhl
    \/ SkipMhl
    \/ Report

Spec == Init /\ [][Next]_vars

SpecChunks == InitChunks /\ [][Next]_vars

\* The run is over: main returned, exited or panicked.
Ended == pc \in {"done", "exit1", "panic"}

----------------------------------------------------------------------------
(* Properties *)

InSeq(x, seq) == \E i \in 1..Len(seq) : seq[i] = x

FileIds == 1..Len(files)
Dest(k) == destination_of(files[k])
RelativePath(k) == StripPrefix(Dest(k), destination)
HasRecord(k) == \E r \in 1..Len(mhl_data) : mhl_data[r].file = RelativePath(k)

\* The digest of a whole file, taken in one update.
DigestOf(method, data) == HashString(method, HashUpdate(HashNew(method), data))

\* The destination's directories before the run.
Dirs0 == {destination} \cup UNION {Prefixes(Parent(f)) : f \in DOMAIN dst0}

\* No per-file step met an I/O failure.
FaultFree == \A k \in FileIds : io_error[k] = "none"

\* The destination file of k held, before the run, data of the source's size.
SameSizeBefore(k) ==
    /\ Dest(k) \in DOMAIN dst0
    /\ Len(dst0[Dest(k)].data) = Len(srcFiles[files[k]])

\* C1: every record of mhl_data belongs to a file whose two digests were both
\* computed and compared equal (copy digest against re-read destination, or
\* re-read source against re-read destination); the record carries that
\* digest, which is the digest of the source data and of the destination data
\* as stored; no record exists for a file that met a mismatch or an I/O
\* failure, or for which no checksum was computed.
ManifestOnlyVerified ==
    \A r \in 1..Len(mhl_data) :
        \E k \in FileIds :
            /\ mhl_data[r].file = RelativePath(k)
            /\ fstate[k] \in {"Skipped-Verified", "Copied-Verified"}
            /\ digests[k][1].text = "hex"
            /\ digests[k][2].text = "hex"
            /\ digests[k][1] = digests[k][2]
            /\ mhl_data[r].checksum = digests[k][1]
            /\ mhl_data[r].checksum = DigestOf(opt.checksum, srcFiles[files[k]])
            /\ mhl_data[r].checksum = DigestOf(opt.checksum, dstFiles[Dest(k)].data)
            /\ io_error[k] = "none"
            /\ ~InSeq(files[k], failed_files)

\* A run that recorded one file on the skip path and one on the copy path.
ManifestOnlyVerifiedWitness ==
    /\ Len(mhl_data) = 2
    /\ \E j \in FileIds, k \in FileIds :
          fstate[j] = "Skipped-Verified" /\ fstate[k] = "Copied-Verified"

\* C2: an I/O error while processing one file ends only that file's
\* processing: the file is appended to failed_files and the run is not aborted.
PerFileErrorIsLocal ==
    \A k \in FileIds :
        io_error[k] \notin {"none", "corrupt"} =>
            /\ fstate[k] \in {"Skipped-Failed", "Copied-Failed"}
            /\ InSeq(files[k], failed_files)
            /\ pc \notin {"panic", "exit1"}

\* C3: with an unsupported algorithm name, when the configuration error is
\* raised no destination directory or file has been created, truncated or
\* written.
UnsupportedAlgorithmTouchesNothing ==
    (opt.checksum \notin Supported \cup {NoChecksum} /\ pc = "exit1") =>
        /\ dstFiles = dst0
        /\ dstDirs = Dirs0
        /\ bytes_written = 0

\* C4: the manifest is written only in a run that is not a preview, in which
\* a manifest was requested and at least one file ended in a success state.
ManifestOnlyAfterSuccess ==
    mhl_file.exists =>
        /\ ~opt.dry_run
        /\ opt.mhl
        /\ \E k \in FileIds :
              fstate[k] \in {"Copied-Verified", "Skipped-Verified", "Copied-NoChecksum"}

\* C5: a finished non-preview run with a supported algorithm over a
\* destination that already held every discovered file with the source's data
\* classifies every file Skipped-Verified, writes no byte, and, when a
\* manifest is requested, writes a manifest with one matching record per file.
IdempotentRerun ==
    ( /\ pc = "done"
      /\ ~opt.dry_run
      /\ opt.checksum \in Supported
      /\ files # <<>>
      /\ FaultFree
      /\ \A k \in FileIds :
            Dest(k) \in DOMAIN dst0 /\ dst0[Dest(k)].data = srcFiles[files[k]] )
    =>
    ( /\ \A k \in FileIds : fstate[k] = "Skipped-Verified"
      /\ bytes_written = 0
      /\ dstFiles = dst0
      /\ opt.mhl =>
            /\ mhl_file.exists
            /\ Len(mhl_file.hashes) = Len(files)
            /\ \A k \in FileIds :
                  \E h \in 1..Len(mhl_file.hashes) :
                      /\ mhl_file.hashes[h].file = RelativePath(k)
                      /\ mhl_file.hashes[h].checksum =
                             DigestOf(opt.checksum, srcFiles[files[k]]) )

\* C6: a preview run mutates nothing: the destination's files and directories
\* stay as they were, no byte is written, no manifest file is written, and
\* neither mhl_data nor failed_files gains an entry.
PreviewMutatesNothing ==
    opt.dry_run =>
        /\ dstFiles = dst0
        /\ dstDirs = Dirs0
        /\ bytes_written = 0
        /\ ~mhl_file.exists
        /\ mhl_data = <<>>
        /\ failed_files = <<>>

\* A finished preview, with a manifest requested, over a tree that has files
\* to copy and an empty directory missing at the destination.
PreviewMutatesNothingWitness ==
    /\ opt.dry_run
    /\ opt.mhl
    /\ pc = "done"
    /\ files # <<>>
    /\ \E d \in 1..Len(empty_dirs) : destination_of(empty_dirs[d]) \notin dstDirs

\* The destination file of k had, before the run, the source's size and
\* other data.
SameSizeOtherData(k) ==
    /\ SameSizeBefore(k)
    /\ dst0[Dest(k)].data # srcFiles[files[k]]

\* C7: in a non-preview run with a supported algorithm, a file whose
\* destination exists with the source's size and other data is classified
\* Skipped-Failed once processed: it is appended to failed_files, gets no
\* record, and its destination file is left as it was.
SameSizeMismatchFails ==
    \A k \in FileIds :
        (~opt.dry_run /\ opt.checksum \in Supported /\ SameSizeOtherData(k)) =>
            /\ dstFiles[Dest(k)] = dst0[Dest(k)]
            /\ ~HasRecord(k)
            /\ fstate[k] \in {Pending, "Skipped-Failed"}
            /\ idx > k => fstate[k] = "Skipped-Failed"
            /\ fstate[k] = "Skipped-Failed" => InSeq(files[k], failed_files)
            /\ pc = "done" => fstate[k] = "Skipped-Failed" /\ InSeq(files[k], printed_failed)

\* A finished run in which such a file was processed.
SameSizeMismatchFailsWitness ==
    /\ pc = "done"
    /\ \E k \in FileIds :
          /\ ~opt.dry_run
          /\ opt.checksum \in Supported
          /\ SameSizeOtherData(k)
          /\ fstate[k] = "Skipped-Failed"

\* C8: the process exits with success only if failed_files is empty at the
\* end of the run.
ExitSuccessOnlyWithoutFailures ==
    (Ended /\ exit_code = 0) => failed_files = <<>>

AnyFailed == \E k \in FileIds : fstate[k] \in {"Skipped-Failed", "Copied-Failed"}

\* C9 as stated: at the end of a non-preview run, failures give "Finished
\* with errors." and the list of every failed path; otherwise the run is
\* reported successful, and "Nothing to copy." only when zero files were
\* processed.
NothingToCopyOnlyWithoutFiles ==
    (pc = "done" /\ ~opt.dry_run) =>
        IF AnyFailed
            THEN /\ report = "Finished with errors."
                 /\ \A k \in FileIds :
                       fstate[k] \in {"Skipped-Failed", "Copied-Failed"} =>
                           InSeq(files[k], printed_failed)
        ELSE /\ report \in {"Finished successfully.", "Nothing to copy."}
             /\ report = "Nothing to copy." => files = <<>>

\* C9 as amended: at the end of a non-preview run, failures give "Finished
\* with errors." and the list of every failed path, and nothing else is
\* listed; otherwise "Nothing to copy." is reported exactly when no file was
\* copied (no file was discovered, or every file ended Skipped-Verified), and
\* "Finished successfully." when some file was.
EndOfRunReport ==
    (pc = "done" /\ ~opt.dry_run) =>
        IF AnyFailed
            THEN /\ report = "Finished with errors."
                 /\ \A k \in FileIds :
                       fstate[k] \in {"Skipped-Failed", "Copied-Failed"} <=>
                           InSeq(files[k], printed_failed)
        ELSE /\ printed_failed = <<>>
             /\ IF \A k \in FileIds : fstate[k] = "Skipped-Verified"
                    THEN report = "Nothing to copy."
                ELSE report = "Finished successfully."

\* A finished run in which files were processed, all ended Skipped-Verified,
\* and "Nothing to copy." was reported.
EndOfRunReportWitness ==
    /\ pc = "done"
    /\ ~opt.dry_run
    /\ files # <<>>
    /\ \A k \in FileIds : fstate[k] = "Skipped-Verified"
    /\ report = "Nothing to copy."

\* C10: every non-preview run with no algorithm or a supported one ends with
\* each file moved out of Pending, the skip path taken exactly when the
\* destination file existed with the source's size.
EveryFileClassified ==
    ( /\ Ended
      /\ ~opt.dry_run
      /\ opt.checksum \in Supported \cup {NoChecksum}
      /\ FaultFree )
    =>
    \A k \in FileIds :
        /\ fstate[k] # Pending
        /\ fstate[k] \in {"Skipped-Verified", "Skipped-Failed"} <=> SameSizeBefore(k)

\* The offsets at which a pass over data reads a chunk.
ChunkOffsets(data) == {n * CHUNK_SIZE : n \in 0..NumChunks(data)}

\* The preconditions of C11 on the whole run.
PlainCopyRun ==
    /\ ~opt.dry_run
    /\ opt.checksum \in Supported
    /\ \A k \in FileIds : ~SameSizeBefore(k)

\* C11: in a non-preview run with a supported algorithm and a destination
\* holding no same-size file, every file processed without I/O failure ends
\* Copied-Verified, its destination bytes equal the source bytes chunk for
\* chunk, and the digest copy_file returned equals the digest of the
\* destination; when the whole run is free of failures, a requested manifest
\* holds exactly one record per discovered file, carrying the source size.
PlainCopyVerified ==
    PlainCopyRun =>
        /\ \A k \in FileIds :
              (k < idx /\ io_error[k] = "none") =>
                  /\ fstate[k] = "Copied-Verified"
                  /\ Len(dstFiles[Dest(k)].data) = Len(srcFiles[files[k]])
                  /\ \A pos \in ChunkOffsets(srcFiles[files[k]]) :
                        ReadChunk(dstFiles[Dest(k)].data, pos) =
                            ReadChunk(srcFiles[files[k]], pos)
                  /\ digests[k][1].text = "hex"
                  /\ digests[k][1] = digests[k][2]
                  /\ digests[k][2] = DigestOf(opt.checksum, dstFiles[Dest(k)].data)
        /\ (pc = "done" /\ FaultFree /\ opt.mhl /\ files # <<>>) =>
              /\ mhl_file.exists
              /\ Len(mhl_file.hashes) = Len(files)
              /\ \A k \in FileIds :
                    \E h \in 1..Len(mhl_file.hashes) :
                        /\ mhl_file.hashes[h].file = RelativePath(k)
                        /\ mhl_file.hashes[h].size = Len(srcFiles[files[k]])
                        /\ mhl_file.hashes[h].checksum = digests[k][1]

\* A finished failure-free run that copied a file of more than one chunk and a
\* 0-byte file and wrote the manifest.
PlainCopyVerifiedWitness ==
    /\ PlainCopyRun
    /\ pc = "done"
    /\ FaultFree
    /\ opt.mhl
    /\ mhl_file.exists
    /\ \E j \in FileIds, k \in FileIds :
          /\ NumChunks(srcFiles[files[j]]) >= 2
          /\ Len(srcFiles[files[k]]) = 0
          /\ fstate[j] = "Copied-Verified"
          /\ fstate[k] = "Copied-Verified"

\* The positions in files of the file a manifest record names.
FileIdsOf(record) == {k \in FileIds : RelativePath(k) = record.file}

\* C12: mhl_data keeps discovery order (its records name files in the order
\* the walker listed them) and holds at most one record per discovered file,
\* so no relative path occurs twice; write_mhl_v2 emits the records in that
\* same order.
ManifestInDiscoveryOrder ==
    /\ Len(mhl_data) <= Len(files)
    /\ \A r \in 1..Len(mhl_data) : Cardinality(FileIdsOf(mhl_data[r])) = 1
    /\ \A q \in 1..Len(mhl_data), r \in 1..Len(mhl_data) :
          q < r => \A j \in FileIdsOf(mhl_data[q]), k \in FileIdsOf(mhl_data[r]) : j < k
    /\ \A q \in 1..Len(mhl_data), r \in 1..Len(mhl_data) :
          q # r => mhl_data[q].file # mhl_data[r].file
    /\ Len(mhl_file.hashes) <= Len(mhl_data)
    /\ \A h \in 1..Len(mhl_file.hashes) : mhl_file.hashes[h].file = mhl_data[h].file

\* A manifest written with the records of two files.
ManifestInDiscoveryOrderWitness ==
    /\ mhl_file.exists
    /\ Len(mhl_data) = 2
    /\ Len(mhl_file.hashes) = 2

\* An entry beneath the input directory whose own name, or the name of a
\* directory on the way to it, is excluded.
Excluded(name) == name \in exclude_files \/ starts_with_dot_underscore(name)
UnderExcluded(path) == \E i \in (Len(input) + 1)..Len(path) : Excluded(path[i])

\* C13: get_files_in_directory returns every regular file beneath the root
\* exactly once, except that every entry whose name is in the exclusion set or
\* begins with "._" is skipped.
ListFilesSkipsExcluded ==
    /\ \A k \in FileIds : files[k] \in DOMAIN srcFiles /\ ~UnderExcluded(files[k])
    /\ \A f \in DOMAIN srcFiles :
          ~UnderExcluded(f) => Cardinality({k \in FileIds : files[k] = f}) = 1

\* The entries of a source directory, whatever their names.
Entries(dir) == {p \in srcDirs \cup DOMAIN srcFiles : Parent(p) = dir}
EmptySourceDirs == {d \in srcDirs \ {input} : Entries(d) = {}}

====
